---- MODULE Spec2Model ----
(***************************************************************************)
(* Model of the CompClub website core: the event visibility gate           *)
(* (website/views.py EventPage), the event slug (website/models.py          *)
(* Event.save), the volunteer assignment relations (Workshop,               *)
(* VolunteerAssignment), the staff assignment submission                    *)
(* (EventAssignVolunteers.post) and the status e-mail preview and dispatch  *)
(* (VolunteerStatusEmailPreview).                                           *)
(***************************************************************************)
EXTENDS Naturals, Integers, Sequences, FiniteSets, Bags, TLC

VARIABLES
    events,      \* Event table: event id -> row
    today,       \* date.today(), a [month, day] record
    response,    \* the response of the last request handled
    instance,    \* an Event object held in memory by a caller (not yet saved)
    workshops,   \* Workshop table: workshop id -> id of its event
    available,   \* Workshop.available: workshop id -> set of volunteer ids
    assignment,  \* VolunteerAssignment table: a bag of [workshop, volunteer, status]
    pending,     \* per staff member: the assignment submission being handled
    outbox       \* volunteers to whom the mail transport has delivered a message

vars == <<events, today, response, instance, workshops, available, assignment,
          pending, outbox>>

(***************************************************************************)
(* Bounds of the model.                                                    *)
(***************************************************************************)
MaxMonth == 2
MaxDay == 2
MaxNameLen == 3
MaxRows == 3

None == "None"

(***************************************************************************)
(* Users and permissions (django.contrib.auth as used by the views).       *)
(***************************************************************************)
view_event == "website.view_event"
view_hidden_event == "website.view_hidden_event"
view_unreleased_event == "website.view_unreleased_event"

Permissions == {view_event, view_hidden_event, view_unreleased_event}

\* A viewer: the permissions granted to the account and the superuser flag
\* (an anonymous viewer has no permission and is no superuser).
Viewers == [perms : SUBSET Permissions, is_superuser : BOOLEAN]

\* user.has_perm(perm): an active superuser has every permission, anyone else
\* has the permissions granted ("app_label.codename" strings).
has_perm(user, perm) == user.is_superuser \/ perm \in user.perms

\* user.has_perms(perm_list): has_perm for every ELEMENT of perm_list.
has_perms(user, perm_list) == \A perm \in perm_list : has_perm(user, perm)

\* Iterating a Python str yields its characters: the elements of
\* "website.view_hidden_event" taken as a perm_list.
CharsOfViewHiddenEvent ==
    {"w", "e", "b", "s", "i", "t", ".", "v", "_", "h", "d", "n"}

(***************************************************************************)
(* Dates: [month, day], compared as datetime.date compares them.           *)
(***************************************************************************)
Dates == [month : 1..MaxMonth, day : 1..MaxDay]

DateLess(a, b) == a.month < b.month \/ (a.month = b.month /\ a.day < b.day)

\* django.contrib.humanize ordinal(): the number with its English suffix.
ordinal(n) ==
    IF (n % 100) \in {11, 12, 13} THEN <<n, "th">>
    ELSE CASE n % 10 = 1 -> <<n, "st">>
           [] n % 10 = 2 -> <<n, "nd">>
           [] n % 10 = 3 -> <<n, "rd">>
           [] OTHER -> <<n, "th">>

\* calendar.month_name[1..12]
month_name ==
    <<"January", "February", "March", "April", "May", "June", "July",
      "August", "September", "October", "November", "December">>

(***************************************************************************)
(* Event names and slugs: strings as sequences over a small alphabet.      *)
(***************************************************************************)
Chars == {"S", "!", " ", "-"}

RECURSIVE StringsUpTo(_)
StringsUpTo(n) ==
    IF n = 0 THEN {<<>>}
    ELSE LET shorter == StringsUpTo(n - 1)
         IN  shorter \cup {Append(s, c) : s \in {t \in shorter : Len(t) = n - 1},
                                          c \in Chars}

Names == StringsUpTo(MaxNameLen) \ {<<>>}

IsWordChar(c) == c \in {"S", "s"}
IsSpace(c) == c = " "

\* re.sub(r'[^\w\s-]', '', value)
RECURSIVE DropNonWord(_)
DropNonWord(s) ==
    IF s = <<>> THEN <<>>
    ELSE IF IsWordChar(Head(s)) \/ IsSpace(Head(s)) \/ Head(s) = "-"
         THEN <<Head(s)>> \o DropNonWord(Tail(s))
         ELSE DropNonWord(Tail(s))

\* str.strip(): leading and trailing whitespace removed
RECURSIVE LStrip(_)
LStrip(s) == IF s # <<>> /\ IsSpace(Head(s)) THEN LStrip(Tail(s)) ELSE s

RECURSIVE RStrip(_)
RStrip(s) ==
    IF s # <<>> /\ IsSpace(s[Len(s)]) THEN RStrip(SubSeq(s, 1, Len(s) - 1)) ELSE s

Strip(s) == RStrip(LStrip(s))

\* str.lower()
LowerChar(c) == IF c = "S" THEN "s" ELSE c
Lower(s) == [i \in 1..Len(s) |-> LowerChar(s[i])]

\* re.sub(r'[-\s]+', '-', value): every run of hyphens and spaces becomes one "-"
RECURSIVE CollapseRuns(_)
CollapseRuns(s) ==
    IF s = <<>> THEN <<>>
    ELSE IF Head(s) = "-" \/ IsSpace(Head(s))
         THEN LET rest == CollapseRuns(Tail(s))
              IN  IF rest # <<>> /\ Head(rest) = "-" THEN rest ELSE <<"-">> \o rest
         ELSE <<Head(s)>> \o CollapseRuns(Tail(s))

\* django.utils.text.slugify (Django 3.0) on the ASCII alphabet above
slugify(name) == CollapseRuns(Lower(Strip(DropNonWord(name))))

(***************************************************************************)
(* Event visibility gate: EventPage.                                       *)
(***************************************************************************)
EventIds == {1, 2, 3}

NoResponse == [view |-> "none"]

\* Http404 raised by get_object_or_404
Http404NoMatch == [status |-> 404, text |-> "No Event matches the given query."]

\* EventPage.get_permission_denied_message
get_permission_denied_message ==
    "Event does not exist or you don't have permissions to view the event."

\* EventPage.handle_no_permission: raise Http404(permission denied message)
handle_no_permission == [status |-> 404, text |-> get_permission_denied_message]

\* EventPage.get_unreleased_message: DISPLAY_ERROR + unreleased_message
get_unreleased_message ==
    "$DISPLAY_ERROR$Event hasn't started yet! It will be available {}{}"

\* Http404(get_unreleased_message().format(f"from {ordinal(day)} ", month_name[month]))
NotStartedResponse(start_date) ==
    [status |-> 404, text |-> get_unreleased_message, when |-> "from",
     day |-> ordinal(start_date.day), month |-> month_name[start_date.month]]

\* Http404(get_unreleased_message().format("", "soon"))
ComingSoonResponse ==
    [status |-> 404, text |-> get_unreleased_message, when |-> "soon"]

RedirectResponse(event_id, slug) ==
    [status |-> 302, event_id |-> event_id, slug |-> slug]

RenderResponse(event_id) == [status |-> 200, event_id |-> event_id]

\* PermissionRequiredMixin.has_permission with permission_required =
\* ("website.view_event"): a str, which get_permission_required wraps in a tuple.
has_permission(user) == has_perms(user, {view_event})

\* The same handler with the slug comparison made after the date and release
\* checks instead of before them.
EventPage_get_SlugLast(event_id, slug, user, now) ==
    IF event_id \notin DOMAIN events THEN Http404NoMatch
    ELSE LET event == events[event_id] IN
         IF event.hidden_event /\ ~has_perms(user, CharsOfViewHiddenEvent)
         THEN handle_no_permission
         ELSE IF DateLess(now, event.start_date)
                 /\ ~has_perm(user, view_unreleased_event)
         THEN NotStartedResponse(event.start_date)
         ELSE IF ~event.released /\ ~has_perm(user, view_unreleased_event)
         THEN ComingSoonResponse
         ELSE IF event.slug # slug
         THEN RedirectResponse(event_id, event.slug)
         ELSE RenderResponse(event_id)

\* The same handler with the two release checks in the opposite order.
EventPage_get_SwappedChecks(event_id, slug, user, now) ==
    IF event_id \notin DOMAIN events THEN Http404NoMatch
    ELSE LET event == events[event_id] IN
         IF event.hidden_event /\ ~has_perms(user, CharsOfViewHiddenEvent)
         THEN handle_no_permission
         ELSE IF event.slug # slug
         THEN RedirectResponse(event_id, event.slug)
         ELSE IF ~event.released /\ ~has_perm(user, view_unreleased_event)
         THEN ComingSoonResponse
         ELSE IF DateLess(now, event.start_date)
                 /\ ~has_perm(user, view_unreleased_event)
         THEN NotStartedResponse(event.start_date)
         ELSE RenderResponse(event_id)

\* EventPage.get(request, event_id, slug), with date.today() = now
EventPage_get(event_id, slug, user, now) ==
    IF event_id \notin DOMAIN events THEN Http404NoMatch
    ELSE LET event == events[event_id] IN
         \* has_perms is handed the str "website.view_hidden_event"
         IF event.hidden_event /\ ~has_perms(user, CharsOfViewHiddenEvent)
         THEN handle_no_permission
         ELSE IF event.slug # slug
         THEN RedirectResponse(event_id, event.slug)
         ELSE IF DateLess(now, event.start_date)
                 /\ ~has_perm(user, view_unreleased_event)
         THEN NotStartedResponse(event.start_date)
         ELSE IF ~event.released /\ ~has_perm(user, view_unreleased_event)
         THEN ComingSoonResponse
         ELSE RenderResponse(event_id)

\* PermissionRequiredMixin.dispatch: the class-level permission is checked
\* before get() runs; a failure goes to handle_no_permission.
EventPage_dispatch(event_id, slug, user, now) ==
    IF ~has_permission(user) THEN handle_no_permission
    ELSE EventPage_get(event_id, slug, user, now)

WrongSlug == <<"x">>

\* the slugs a URL for event_id is tried with: the canonical one and another
UrlSlugs(event_id) ==
    {WrongSlug} \cup
        (IF event_id \in DOMAIN events THEN {events[event_id].slug} ELSE {})

\* A GET of the event page by one of the given viewers.
EventPageRequestBy(viewers) ==
    /\ \E event_id \in EventIds : \E slug \in UrlSlugs(event_id) :
       \E user \in viewers :
          response' = [view |-> "EventPage", event_id |-> event_id,
                       slug |-> slug, user |-> user, today |-> today,
                       result |-> EventPage_dispatch(event_id, slug, user, today)]
    /\ UNCHANGED <<events, today, instance, workshops, available, assignment,
                   pending, outbox>>

\* A GET of the event page by any viewer.
EventPageRequest == EventPageRequestBy(Viewers)

\* the viewers who hold view_event, as the accounts that SignUpPage puts in
\* the default_student group are taken to
Members == {user \in Viewers : view_event \in user.perms}

\* A GET of the event page by a viewer who holds view_event.
MemberEventPageRequest == EventPageRequestBy(Members)

\* the next calendar day of the model's calendar
NextDate(d) ==
    IF d.day < MaxDay THEN [month |-> d.month, day |-> d.day + 1]
    ELSE [month |-> d.month + 1, day |-> 1]

\* Midnight passes.
Tick ==
    /\ today.month < MaxMonth \/ today.day < MaxDay
    /\ today' = NextDate(today)
    /\ UNCHANGED <<events, response, instance, workshops, available, assignment,
                   pending, outbox>>

FirstDate == [month |-> 1, day |-> 1]

NoInstance == [pk |-> 0, name |-> <<>>, slug |-> <<>>]

EmptyStore ==
    /\ instance = NoInstance
    /\ workshops = << >>
    /\ available = << >>
    /\ assignment = EmptyBag
    /\ pending = << >>
    /\ outbox = {}

\* One event with any start date and any setting of the two flags.
InitVisibility ==
    /\ \E start \in Dates, hidden \in BOOLEAN, rel \in BOOLEAN :
          events = (1 :> [name |-> <<"S", " ", "S">>, slug |-> slugify(<<"S", " ", "S">>),
                          start_date |-> start, hidden_event |-> hidden,
                          released |-> rel])
    /\ today = FirstDate
    /\ response = NoResponse
    /\ EmptyStore

NextVisibility == EventPageRequest \/ Tick

SpecVisibility == InitVisibility /\ [][NextVisibility]_vars

\* the same with every request made by a viewer who holds view_event
NextMembers == MemberEventPageRequest \/ Tick

SpecMembers == InitVisibility /\ [][NextMembers]_vars

(***************************************************************************)
(* Claims about the event visibility gate (SpecVisibility).                *)
(***************************************************************************)
\* the last request was an EventPage GET for an event that exists
EventPageAnswered ==
    /\ response.view = "EventPage"
    /\ response.event_id \in DOMAIN events

\* the visibility rule as the specification words it, "holds" being has_perm
VisibleByRule(event, user, now) ==
    /\ ~event.hidden_event \/ has_perm(user, view_hidden_event)
    /\ \/ ~DateLess(now, event.start_date) /\ event.released
       \/ has_perm(user, view_unreleased_event)

\* C1: an EventPage request with the canonical slug ends VISIBLE if and only
\* if (the event is not hidden or the viewer holds view_hidden_event) and
\* (today >= start_date and released, or the viewer holds
\* view_unreleased_event); no other permission is needed.
C1_VisibleIffRule ==
    (EventPageAnswered /\ response.slug = events[response.event_id].slug)
        => ((response.result.status = 200)
              <=> VisibleByRule(events[response.event_id], response.user,
                                response.today))

\* the not-found style denial: Http404 carrying the permission-denied text
NotFoundStyle(result) == result = handle_no_permission

\* the "not started" denial naming the ordinal day and the month of start_date
NotStartedNaming(result, start_date) ==
    /\ result.status = 404
    /\ result.text = get_unreleased_message
    /\ result.when = "from"
    /\ result.day = ordinal(start_date.day)
    /\ result.day[1] = start_date.day
    /\ result.month = month_name[start_date.month]

\* hidden takes precedence: a hidden event viewed without view_hidden_event
\* is always answered with the not-found style denial
HiddenFirst ==
    (EventPageAnswered
       /\ events[response.event_id].hidden_event
       /\ ~has_perm(response.user, view_hidden_event))
        => NotFoundStyle(response.result)

\* C2 as stated: a denied request follows the precedence hidden > not-started
\* > unreleased; in particular every denial of a non-hidden event before its
\* start_date to a viewer without view_unreleased_event is the "not started"
\* message naming the start day and month.
C2_PrecedenceAsStated ==
    /\ HiddenFirst
    /\ (EventPageAnswered
          /\ response.result.status = 404
          /\ ~events[response.event_id].hidden_event
          /\ DateLess(response.today, events[response.event_id].start_date)
          /\ ~has_perm(response.user, view_unreleased_event))
         => NotStartedNaming(response.result,
                             events[response.event_id].start_date)

\* C2 amended: the same precedence, the "not started" message being owed to
\* viewers who hold view_event (without it the class-level permission check
\* answers with the not-found style denial before any date is looked at).
C2_Precedence ==
    /\ HiddenFirst
    /\ (EventPageAnswered
          /\ response.result.status = 404
          /\ has_perm(response.user, view_event)
          /\ ~events[response.event_id].hidden_event
          /\ DateLess(response.today, events[response.event_id].start_date)
          /\ ~has_perm(response.user, view_unreleased_event))
         => NotStartedNaming(response.result,
                             events[response.event_id].start_date)

\* a "not started" denial of an event that is also unreleased
C2_Witness ==
    /\ EventPageAnswered
    /\ ~events[response.event_id].hidden_event
    /\ ~events[response.event_id].released
    /\ DateLess(response.today, events[response.event_id].start_date)
    /\ response.user.perms = {view_event}
    /\ ~response.user.is_superuser
    /\ response.result = NotStartedResponse(events[response.event_id].start_date)

(***************************************************************************)
(* Volunteer assignment: Workshop, VolunteerAssignment.                    *)
(***************************************************************************)
Volunteers == {"v1", "v2"}
WorkshopIds == {"w1", "w2", "w3"}

\* VolunteerAssignment.ASSIGNED / WAITLIST / DECLINED
ASSIGNED == "AS"
WAITLIST == "WL"
DECLINED == "DE"
ASSIGN_CHOICES == {ASSIGNED, WAITLIST, DECLINED}

Row(w, v, st) == [workshop |-> w, volunteer |-> v, status |-> st]

\* workshop.assignment.all(): the VolunteerAssignment rows of a workshop
RowsOf(table, w) == {r \in BagToSet(table) : r.workshop = w}

\* the number of rows of the table for the pair (w, v)
CountPair(table, w, v) ==
    CopiesIn(Row(w, v, ASSIGNED), table) + CopiesIn(Row(w, v, WAITLIST), table)
        + CopiesIn(Row(w, v, DECLINED), table)

\* Workshop.assigned: the volunteers reached through VolunteerAssignment rows
assigned(w) == {r.volunteer : r \in RowsOf(assignment, w)}

\* unassigned() excluding only the volunteers whose row says ASSIGNED
unassigned_OnlyAssignedStatus(w) ==
    {v \in available[w] :
        v \notin {r.volunteer :
                    r \in {x \in RowsOf(assignment, w) : x.status = ASSIGNED}}}

\* unassigned() excluding the volunteers with a row on any workshop
unassigned_AnyWorkshop(w) ==
    {v \in available[w] :
        v \notin {r.volunteer : r \in BagToSet(assignment)}}

\* Workshop.unassigned(): self.available.exclude(id__in=self.assigned.all())
unassigned(w) == {v \in available[w] : v \notin assigned(w)}

\* withdrawn() without the exclusion of DECLINED rows
withdrawn_KeepsDeclined(w) ==
    {r.volunteer : r \in {x \in RowsOf(assignment, w) :
                            x.volunteer \notin available[w]}}

\* Workshop.withdrawn(): assignment.exclude(status=DECLINED)
\*     .exclude(volunteer__in=self.available.all()), mapped to the volunteer
withdrawn(w) ==
    {r.volunteer : r \in {x \in RowsOf(assignment, w) :
                            /\ x.status # DECLINED
                            /\ x.volunteer \notin available[w]}}

\* A table without the uniqueness key.
unique_together_Absent(table, w, v) == TRUE

\* VolunteerAssignment.Meta.unique_together = ('workshop', 'volunteer'):
\* whether the table accepts a new row for the pair
unique_together(table, w, v) == CountPair(table, w, v) = 0

\* INSERT of a VolunteerAssignment row; the table refuses it (IntegrityError)
\* when the uniqueness key is taken
CanInsert(table, w, v) == unique_together(table, w, v)
Insert(table, w, v, st) == table (+) SetToBag({Row(w, v, st)})

\* UPDATE of the status of the rows of the pair (w, v)
UpdateStatus(table, w, v, st) ==
    LET n == CountPair(table, w, v)
        others == {r \in BagToSet(table) : ~(r.workshop = w /\ r.volunteer = v)}
        kept == [r \in others |-> table[r]]
    IN  IF n = 0 THEN table ELSE kept (+) [r \in {Row(w, v, st)} |-> n]

(***************************************************************************)
(* VolunteerAssignForm (website/forms.py).                                 *)
(***************************************************************************)
\* the form as built by post(): available=workshop.available.all(),
\* assignments=workshop.assignment.all()
VolunteerAssignForm(w) ==
    [workshop |-> w, available |-> available[w],
     recorded |-> {r.volunteer : r \in RowsOf(assignment, w)}]

\* is_valid(): every volunteer named is available or has a record already,
\* and every status is one of ASSIGN_CHOICES
is_valid(form, entries) ==
    \A v \in DOMAIN entries :
        /\ v \in form.available \cup form.recorded
        /\ entries[v] \in ASSIGN_CHOICES

\* one entry of save(): create the record if absent, else update its status;
\* a create the table refuses (the row appeared meanwhile) becomes an update
SaveEntry(table, form, v, st) ==
    IF v \in form.recorded THEN UpdateStatus(table, form.workshop, v, st)
    ELSE IF CanInsert(table, form.workshop, v)
         THEN Insert(table, form.workshop, v, st)
         ELSE UpdateStatus(table, form.workshop, v, st)

\* save(): every entry of the submission, in one transaction
RECURSIVE SaveEntries(_, _, _, _)
SaveEntries(table, form, entries, todo) ==
    IF todo = {} THEN table
    ELSE LET v == CHOOSE x \in todo : TRUE
         IN  SaveEntries(SaveEntry(table, form, v, entries[v]), form, entries,
                         todo \ {v})

save(table, form, entries) == SaveEntries(table, form, entries, DOMAIN entries)

(***************************************************************************)
(* EventAssignVolunteers.post                                              *)
(***************************************************************************)
\* the volunteer statuses a submission may carry
Entries == UNION {[vs -> ASSIGN_CHOICES] : vs \in SUBSET Volunteers}

\* the response of a view that returned None (Django: "The view didn't return
\* an HttpResponse object", a server error)
ReturnedNone == [status |-> 500, text |-> "view returned None"]

Http404NoWorkshop == [status |-> 404, text |-> "No Workshop matches the given query."]

AssignRedirect == [status |-> 302, to |-> "website:assign_volunteers"]

AssignResponse(workshop_id, entries, result) ==
    [view |-> "EventAssignVolunteers", workshop_id |-> workshop_id,
     entries |-> entries, result |-> result]

\* post() that saves without asking is_valid(): the entries of volunteers the
\* form knows are written, the others dropped
post_SkipsValidation(workshop_id, entries) ==
    /\ workshop_id \in DOMAIN workshops
    /\ LET form == VolunteerAssignForm(workshop_id)
           known == {v \in DOMAIN entries : v \in form.available \cup form.recorded}
       IN  /\ assignment' = save(assignment, form, [v \in known |-> entries[v]])
           /\ response' = AssignResponse(workshop_id, entries, AssignRedirect)
    /\ UNCHANGED <<events, today, instance, workshops, available, pending, outbox>>

\* post() that takes the volunteers it has dealt with off the available list
post_ConsumesAvailability(workshop_id, entries) ==
    /\ workshop_id \in DOMAIN workshops
    /\ LET form == VolunteerAssignForm(workshop_id) IN
       /\ is_valid(form, entries)
       /\ assignment' = save(assignment, form, entries)
       /\ available' = [available EXCEPT ![workshop_id] = @ \ DOMAIN entries]
       /\ response' = AssignResponse(workshop_id, entries, AssignRedirect)
    /\ UNCHANGED <<events, today, instance, workshops, pending, outbox>>

\* post(request, event_id, slug) handled without interruption; workshop_id is
\* None when the POST data has no 'workshop_id' key
post(workshop_id, entries) ==
    /\ IF workshop_id = None
       THEN /\ response' = AssignResponse(workshop_id, entries, ReturnedNone)
            /\ UNCHANGED assignment
       ELSE IF workshop_id \notin DOMAIN workshops
       THEN /\ response' = AssignResponse(workshop_id, entries, Http404NoWorkshop)
            /\ UNCHANGED assignment
       ELSE LET form == VolunteerAssignForm(workshop_id) IN
            IF is_valid(form, entries)
            THEN /\ assignment' = save(assignment, form, entries)
                 /\ response' = AssignResponse(workshop_id, entries, AssignRedirect)
            ELSE /\ response' = AssignResponse(workshop_id, entries, ReturnedNone)
                 /\ UNCHANGED assignment
    /\ UNCHANGED <<events, today, instance, workshops, available, pending, outbox>>

\* A staff member submits an assignment form.
\* (the volunteer fields are read only once the workshop has been found)
Post ==
    \E workshop_id \in WorkshopIds \cup {None} :
        \E entries \in (IF workshop_id \in DOMAIN workshops THEN Entries
                         ELSE {<< >>}) :
            post(workshop_id, entries)

\* A volunteer declares availability for a workshop.
AvailableAdd(w, v) ==
    /\ w \in DOMAIN workshops
    /\ v \notin available[w]
    /\ available' = [available EXCEPT ![w] = @ \cup {v}]
    /\ response' = [view |-> "availability"]
    /\ UNCHANGED <<events, today, instance, workshops, assignment, pending, outbox>>

\* A volunteer retracts availability for a workshop.
AvailableRemove(w, v) ==
    /\ w \in DOMAIN workshops
    /\ v \in available[w]
    /\ available' = [available EXCEPT ![w] = @ \ {v}]
    /\ response' = [view |-> "availability"]
    /\ UNCHANGED <<events, today, instance, workshops, assignment, pending, outbox>>

ChangeAvailability ==
    \E w \in WorkshopIds, v \in Volunteers :
        AvailableAdd(w, v) \/ AvailableRemove(w, v)

AnEvent(name) ==
    [name |-> name, slug |-> slugify(name), start_date |-> FirstDate,
     hidden_event |-> FALSE, released |-> TRUE]

\* Two workshops of one event, nobody available, nobody assigned.
InitAssign ==
    /\ events = (1 :> AnEvent(<<"S", " ", "S">>))
    /\ today = FirstDate
    /\ response = NoResponse
    /\ instance = NoInstance
    /\ workshops = ("w1" :> 1 @@ "w2" :> 1)
    /\ available = ("w1" :> {} @@ "w2" :> {})
    /\ assignment = EmptyBag
    /\ pending = << >>
    /\ outbox = {}

NextAssign == Post \/ ChangeAvailability

SpecAssign == InitAssign /\ [][NextAssign]_vars

(***************************************************************************)
(* EventAssignVolunteers.post with two staff members at work at once: the  *)
(* form is built and validated in one step and saved in a later one.       *)
(***************************************************************************)
Staff == {"s1", "s2"}

NoRequest == [form |-> None]

\* the volunteers whose INSERT the table refused while the form was saved
Conflicts(table, form, entries) ==
    {v \in DOMAIN entries :
        v \notin form.recorded /\ ~CanInsert(table, form.workshop, v)}

\* what a validated form still reads when it is saved
Validated(form) == [workshop |-> form.workshop, recorded |-> form.recorded]

\* post() up to and including post_form.is_valid()
post_begin(s, workshop_id, entries) ==
    /\ pending[s] = NoRequest
    /\ IF workshop_id = None
       THEN /\ response' = AssignResponse(workshop_id, entries, ReturnedNone)
            /\ UNCHANGED pending
       ELSE IF workshop_id \notin DOMAIN workshops
       THEN /\ response' = AssignResponse(workshop_id, entries, Http404NoWorkshop)
            /\ UNCHANGED pending
       ELSE LET form == VolunteerAssignForm(workshop_id) IN
            IF is_valid(form, entries)
            THEN /\ pending' = [pending EXCEPT ![s] = [form |-> Validated(form),
                                                       entries |-> entries]]
                 /\ UNCHANGED response
            ELSE /\ response' = AssignResponse(workshop_id, entries, ReturnedNone)
                 /\ UNCHANGED pending
    /\ UNCHANGED <<events, today, instance, workshops, available, assignment,
                   outbox>>

\* post() from post_form.save() to the redirect
post_finish(s) ==
    /\ pending[s] # NoRequest
    /\ LET form == pending[s].form
           entries == pending[s].entries
       IN  /\ assignment' = save(assignment, form, entries)
           /\ response' = [view |-> "EventAssignVolunteers",
                           workshop_id |-> form.workshop, entries |-> entries,
                           result |-> AssignRedirect,
                           conflicts |-> Conflicts(assignment, form, entries)]
    /\ pending' = [pending EXCEPT ![s] = NoRequest]
    /\ UNCHANGED <<events, today, instance, workshops, available, outbox>>

\* submissions that name at most one volunteer
SingleEntries == {entries \in Entries : Cardinality(DOMAIN entries) <= 1}

PostBegin ==
    \E s \in Staff : \E workshop_id \in WorkshopIds \cup {None} :
        \E entries \in (IF workshop_id \in DOMAIN workshops THEN SingleEntries
                         ELSE {<< >>}) :
            post_begin(s, workshop_id, entries)

PostFinish == \E s \in Staff : post_finish(s)

\* One workshop, nobody available, nobody assigned, no submission in flight.
InitConcurrent ==
    /\ events = (1 :> AnEvent(<<"S", " ", "S">>))
    /\ today = FirstDate
    /\ response = NoResponse
    /\ instance = NoInstance
    /\ workshops = ("w1" :> 1)
    /\ available = ("w1" :> {})
    /\ assignment = EmptyBag
    /\ pending = [s \in Staff |-> NoRequest]
    /\ outbox = {}

NextConcurrent == PostBegin \/ PostFinish \/ ChangeAvailability

SpecConcurrent == InitConcurrent /\ [][NextConcurrent]_vars

(***************************************************************************)
(* Claims about the derived volunteer sets (SpecAssign).                   *)
(***************************************************************************)
\* the volunteers with at least one row on w, read off the table itself
Recorded(w) == {v \in Volunteers : CountPair(assignment, w, v) > 0}

\* the volunteers with a row on w of status st
RecordedAs(w, st) == {v \in Volunteers : CopiesIn(Row(w, v, st), assignment) > 0}

\* C3 as stated: for every workshop W in every reachable state,
\* unassigned(W) united with assigned(W) equals available(W).
C3_UnionIsAvailable ==
    \A w \in DOMAIN workshops : unassigned(w) \cup assigned(w) = available[w]

\* C3 amended: unassigned(W) united with the assigned volunteers who are
\* still available equals available(W); united with all of assigned(W) it
\* equals available(W) together with assigned(W), which exceeds available(W)
\* by the volunteers who retracted their availability after being recorded.
C3_UnionCoversAvailable ==
    \A w \in DOMAIN workshops :
        /\ unassigned(w) \cup (assigned(w) \cap available[w]) = available[w]
        /\ unassigned(w) \cup assigned(w) = available[w] \cup Recorded(w)

\* a workshop with an unassigned volunteer and a recorded one who is no
\* longer available, while its other available volunteer has a row elsewhere
C3_Witness ==
    \E w \in DOMAIN workshops : \E w2 \in DOMAIN workshops \ {w} :
        /\ unassigned(w) # {}
        /\ Recorded(w) \ available[w] # {}
        /\ unassigned(w) \cap Recorded(w2) # {}

\* C4: unassigned(W) is exactly available(W) minus assigned(W) by volunteer
\* identity on the current store; unassigned(W) and assigned(W) are disjoint;
\* a volunteer with a record of any status on W is never in unassigned(W).
C4_UnassignedIsDifference ==
    \A w \in DOMAIN workshops :
        /\ unassigned(w) = available[w] \ Recorded(w)
        /\ unassigned(w) \cap assigned(w) = {}
        /\ \A st \in ASSIGN_CHOICES : unassigned(w) \cap RecordedAs(w, st) = {}

\* an available volunteer with a DECLINED row next to an unassigned one
C4_Witness ==
    \E w \in DOMAIN workshops :
        /\ RecordedAs(w, DECLINED) \cap available[w] # {}
        /\ unassigned(w) # {}

\* C5: withdrawn(W) is exactly the volunteers with an ASSIGNED or WAITLIST
\* record on W who are not in available(W); a volunteer whose record on W is
\* DECLINED is never in withdrawn(W), available or not.
C5_WithdrawnExact ==
    \A w \in DOMAIN workshops :
        /\ withdrawn(w) =
             (RecordedAs(w, ASSIGNED) \cup RecordedAs(w, WAITLIST)) \ available[w]
        /\ withdrawn(w) \cap RecordedAs(w, DECLINED) = {}

\* a workshop with a withdrawn volunteer and a declined, unavailable one
C5_Witness ==
    \E w \in DOMAIN workshops :
        /\ withdrawn(w) # {}
        /\ RecordedAs(w, DECLINED) \ available[w] # {}

(***************************************************************************)
(* Claims about the assignment submission (SpecAssign).                    *)
(***************************************************************************)
\* this step answers an assignment submission
Answered == response'.view = "EventAssignVolunteers"

\* the volunteers of the submission that were ineligible when it was made
Ineligible(w, entries) ==
    {v \in DOMAIN entries : v \notin available[w] \cup Recorded(w)}

C7_Frame ==
    [][(Answered /\ response'.result = AssignRedirect) =>
        /\ UNCHANGED <<available, workshops>>
        /\ \A w \in WorkshopIds, v \in Volunteers, st \in ASSIGN_CHOICES :
              (w # response'.workshop_id \/ v \notin DOMAIN response'.entries)
                 => CopiesIn(Row(w, v, st), assignment')
                      = CopiesIn(Row(w, v, st), assignment)]_vars

\* an applied submission naming one volunteer, while the other volunteer has
\* a row on the same workshop and the named one a row on the other workshop
C7_Witness ==
    /\ response.view = "EventAssignVolunteers"
    /\ response.result = AssignRedirect
    /\ \E v \in Volunteers :
          /\ DOMAIN response.entries = {v}
          /\ Recorded(response.workshop_id) = Volunteers
          /\ \E w2 \in DOMAIN workshops \ {response.workshop_id} :
                v \in Recorded(w2)
          /\ v \in available[response.workshop_id]

(***************************************************************************)
(* Claim about the uniqueness key (SpecConcurrent).                        *)
(***************************************************************************)
AtMostOneRecord ==
    \A w \in WorkshopIds, v \in Volunteers : CountPair(assignment, w, v) <= 1

\* C8: at most one VolunteerAssignment row per (workshop, volunteer) pair in
\* every reachable state, for any interleaving of two staff submissions; an
\* entry for a pair that has a row updates its status and adds no row.
C8_OneRecordPerPair ==
    [][/\ AtMostOneRecord'
       /\ \A s \in Staff :
             (pending[s] # NoRequest /\ pending'[s] = NoRequest) =>
                 \A v \in DOMAIN pending[s].entries :
                     LET w == pending[s].form.workshop IN
                     /\ CopiesIn(Row(w, v, pending[s].entries[v]), assignment') = 1
                     /\ CountPair(assignment, w, v) = 1
                           => BagCardinality(assignment') = BagCardinality(assignment)
      ]_vars

\* a submission saved after the other staff member had created the row it
\* meant to create
C8_Witness ==
    /\ response.view = "EventAssignVolunteers"
    /\ response.result = AssignRedirect
    /\ response.conflicts # {}
    /\ \A s \in Staff : pending[s] = NoRequest

(***************************************************************************)
(* Event.save and the slug.                                                *)
(***************************************************************************)
\* the default of Event.slug
DefaultSlug == <<"e", "v", "e", "n", "t">>

\* a slug a caller types into the slug field
CustomSlug == <<"m", "y">>

\* the primary keys the Event table hands out in this part of the model
SlugPks == {1}

\* save() that keeps a slug the caller has changed from the default
Event_save_KeepsGivenSlug(obj) ==
    [obj EXCEPT !.slug = IF obj.slug = DefaultSlug THEN slugify(obj.name)
                         ELSE obj.slug]

\* Event.save(): self.slug = slugify(self.name), then Model.save()
Event_save(obj) == [obj EXCEPT !.slug = slugify(obj.name)]

\* the table row of a saved object
EventRow(obj) ==
    [name |-> obj.name, slug |-> obj.slug, start_date |-> FirstDate,
     hidden_event |-> TRUE, released |-> TRUE]

\* A caller constructs Event(name=...) in memory; slug takes its default.
NewEvent ==
    /\ \E c \in Chars :
          instance' = [pk |-> 0, name |-> <<c>>, slug |-> DefaultSlug]
    /\ response' = NoResponse
    /\ UNCHANGED <<events, today, workshops, available, assignment, pending,
                   outbox>>

\* A caller loads a stored event.
LoadEvent ==
    /\ \E pk \in DOMAIN events :
          instance' = [pk |-> pk, name |-> events[pk].name,
                       slug |-> events[pk].slug]
    /\ response' = NoResponse
    /\ UNCHANGED <<events, today, workshops, available, assignment, pending,
                   outbox>>

\* A caller edits the name of the object in memory, a character at a time.
RenameEvent ==
    /\ instance # NoInstance
    /\ \/ \E c \in Chars :
             /\ Len(instance.name) < MaxNameLen
             /\ instance' = [instance EXCEPT !.name = Append(@, c)]
       \/ /\ Len(instance.name) > 1
          /\ instance' = [instance EXCEPT
                            !.name = SubSeq(@, 1, Len(instance.name) - 1)]
    /\ response' = NoResponse
    /\ UNCHANGED <<events, today, workshops, available, assignment, pending,
                   outbox>>

\* A caller sets the slug of the object in memory.
SetSlug ==
    /\ instance # NoInstance
    /\ instance.slug # CustomSlug
    /\ instance' = [instance EXCEPT !.slug = CustomSlug]
    /\ response' = NoResponse
    /\ UNCHANGED <<events, today, workshops, available, assignment, pending,
                   outbox>>

\* The caller saves the object: an INSERT when it has no primary key yet,
\* else an UPDATE of its row.
SaveEvent ==
    /\ instance # NoInstance
    /\ instance.pk # 0 \/ SlugPks \ DOMAIN events # {}
    /\ LET pk == IF instance.pk # 0 THEN instance.pk
                 ELSE CHOOSE k \in SlugPks \ DOMAIN events : TRUE
           saved == [Event_save(instance) EXCEPT !.pk = pk]
       IN  /\ instance' = saved
           /\ events' = IF pk \in DOMAIN events
                        THEN [events EXCEPT ![pk] = EventRow(saved)]
                        ELSE events @@ (pk :> EventRow(saved))
           /\ response' = [view |-> "Event.save", pk |-> pk,
                           slug_given |-> instance.slug,
                           renamed |-> /\ pk \in DOMAIN events
                                       /\ events[pk].name # instance.name]
    /\ UNCHANGED <<today, workshops, available, assignment, pending, outbox>>

\* No event stored, no object in memory.
InitSlug ==
    /\ events = << >>
    /\ today = FirstDate
    /\ response = NoResponse
    /\ EmptyStore

NextSlug == NewEvent \/ LoadEvent \/ RenameEvent \/ SetSlug \/ SaveEvent

SpecSlug == InitSlug /\ [][NextSlug]_vars

WorkshopsOf(event_id) == {w \in DOMAIN workshops : workshops[w] = event_id}

\* the rows of a volunteer on the workshops of an event
RowsFor(event_id, v) ==
    {r \in BagToSet(assignment) :
        r.volunteer = v /\ r.workshop \in WorkshopsOf(event_id)}

\* the message to one volunteer: a line per workshop of the event with the
\* status of the volunteer on it
StatusEmail(event_id, v) ==
    [recipient |-> v, event |-> event_id,
     lines |-> {[workshop |-> r.workshop, status |-> r.status] :
                   r \in RowsFor(event_id, v)}]

\* generate_status_email(event_id): one message per volunteer with a row on a
\* workshop of the event
generate_status_email(event_id) ==
    {StatusEmail(event_id, v) :
        v \in {x \in Volunteers : RowsFor(event_id, x) # {}}}

\* get_context_data() that composes for every event, whatever event_id is
get_context_data_EveryEvent(event_id) ==
    [emails |-> UNION {generate_status_email(e) : e \in DOMAIN events}]

\* VolunteerStatusEmailPreview.get_context_data(event_id)
get_context_data(event_id) == [emails |-> generate_status_email(event_id)]

\* the composer signals an error for an event that does not exist
ComposerError == [status |-> 404, text |-> "No Event matches the given query."]

\* VolunteerStatusEmailPreview.get: render the preview of the messages
PreviewGet ==
    /\ \E event_id \in EventIds :
          response' =
             [view |-> "VolunteerStatusEmailPreview.get", event_id |-> event_id,
              result |-> IF event_id \in DOMAIN events
                         THEN [status |-> 200,
                               emails |-> get_context_data(event_id).emails]
                         ELSE ComposerError]
    /\ UNCHANGED <<events, today, instance, workshops, available, assignment,
                   pending, outbox>>

\* what send_mass_mail may do: deliver everything, or raise
MailOutcomes ==
    {"sent", "BadHeaderError", "SMTPSenderRefused", "SMTPRecipientsRefused",
     "ConnectionRefusedError"}

IndexRedirect == [status |-> 302, to |-> "website:event_index"]

\* the response of post() for an outcome of send_mass_mail; an exception
\* that no except clause names leaves the view
DispatchResponse(outcome) ==
    CASE outcome = "sent" -> IndexRedirect
      [] outcome = "BadHeaderError" ->
            [status |-> 200, text |-> "Invalid header found"]
      [] outcome = "SMTPSenderRefused" ->
            [status |-> 200, text |-> "Failed to send email. The host may not have correctly configured the SMTP settings."]
      [] OTHER -> [status |-> 500, text |-> outcome]

\* VolunteerStatusEmailPreview.post: compose, then send_mass_mail; when the
\* transport raises, the messages before the failing one have gone out
PreviewPost ==
    /\ \E event_id \in EventIds :
          IF event_id \notin DOMAIN events
          THEN /\ response' = [view |-> "VolunteerStatusEmailPreview.post",
                               event_id |-> event_id, result |-> ComposerError]
               /\ UNCHANGED outbox
          ELSE LET emails == get_context_data(event_id).emails
                   recipients == {m.recipient : m \in emails}
               IN  \E outcome \in MailOutcomes :
                   \E delivered \in SUBSET recipients :
                      /\ outcome = "sent" => delivered = recipients
                      /\ outcome # "sent" => delivered # recipients \/ recipients = {}
                      /\ outbox' = outbox \cup delivered
                      /\ response' = [view |-> "VolunteerStatusEmailPreview.post",
                                      event_id |-> event_id,
                                      result |-> DispatchResponse(outcome)]
    /\ UNCHANGED <<events, today, instance, workshops, available, assignment,
                   pending>>

\* the tables of at most MaxRows rows in which every (workshop, volunteer)
\* pair has no row or one row
AssignmentTables ==
    LET pairs == WorkshopIds \X Volunteers
        choices == [pairs -> ASSIGN_CHOICES \cup {None}]
    IN  {SetToBag({Row(p[1], p[2], c[p]) : p \in {q \in pairs : c[q] # None}}) :
            c \in {d \in choices :
                     Cardinality({q \in pairs : d[q] # None}) <= MaxRows}}

\* Two events, two workshops of the first and one of the second, and an
\* assignment table over them.
InitCompose ==
    /\ events = (1 :> AnEvent(<<"S", " ", "S">>) @@ 2 :> AnEvent(<<"S">>))
    /\ today = FirstDate
    /\ response = NoResponse
    /\ instance = NoInstance
    /\ workshops = ("w1" :> 1 @@ "w2" :> 1 @@ "w3" :> 2)
    /\ available = ("w1" :> {} @@ "w2" :> {} @@ "w3" :> {})
    /\ assignment \in AssignmentTables
    /\ pending = << >>
    /\ outbox = {}

NextCompose == PreviewGet \/ PreviewPost

SpecCompose == InitCompose /\ [][NextCompose]_vars

(***************************************************************************)
(* Claim about the status notification composer (SpecCompose).             *)
(***************************************************************************)
\* the rows of volunteer v on the workshops of event e, read off the tables
RecordsOn(e, v) ==
    {r \in BagToSet(assignment) : r.volunteer = v /\ workshops[r.workshop] = e}

\* C10: composing for event E yields exactly one message for each volunteer
\* with a row on a workshop of E and none for anyone else; the message covers
\* all the volunteer's rows on E and nothing of other events; composing (the
\* preview GET) sends nothing and changes no state.
C10_OneMessagePerVolunteer ==
    [][response'.view = "VolunteerStatusEmailPreview.get" =>
        /\ UNCHANGED <<events, workshops, available, assignment, pending, outbox>>
        /\ response'.event_id \in DOMAIN events =>
              LET e == response'.event_id
                  emails == response'.result.emails
              IN  \A v \in Volunteers :
                     LET mine == {m \in emails : m.recipient = v} IN
                     /\ Cardinality(mine) = IF RecordsOn(e, v) = {} THEN 0 ELSE 1
                     /\ \A m \in mine :
                           /\ m.event = e
                           /\ m.lines = {[workshop |-> r.workshop,
                                          status |-> r.status] :
                                            r \in RecordsOn(e, v)}]_vars

\* the preview for the first event when one volunteer is assigned to both of
\* its workshops and waitlisted on the workshop of the other event, and the
\* other volunteer has no row on the first event
C10_Witness ==
    /\ response.view = "VolunteerStatusEmailPreview.get"
    /\ response.event_id = 1
    /\ \E v \in Volunteers :
          /\ RecordsOn(1, v) = {Row("w1", v, ASSIGNED), Row("w2", v, ASSIGNED)}
          /\ RecordsOn(2, v) = {Row("w3", v, WAITLIST)}
          /\ \A u \in Volunteers \ {v} : RecordsOn(1, u) = {}
          /\ response.result.emails = {StatusEmail(1, v)}
          /\ Cardinality(StatusEmail(1, v).lines) = 2

(***************************************************************************)
(* The public listings: Index (home page) and EventIndex (events feed).    *)
(***************************************************************************)
\* the event ids in some order that order_by('start_date') can return: rows
\* with equal start dates come in an order the database chooses
order_by_start_date(ids) ==
    {list \in [1..Cardinality(ids) -> ids] :
        /\ \A i, j \in DOMAIN list : i # j => list[i] # list[j]
        /\ \A i, j \in DOMAIN list :
              i < j => ~DateLess(events[list[j]].start_date,
                                 events[list[i]].start_date)}

\* Index.get_context_data: filter(highlighted_event=True,
\* finish_date__gte=datetime.now()).order_by('start_date')
Index_get_context_data(now) ==
    order_by_start_date({e \in DOMAIN events :
                            /\ events[e].highlighted_event
                            /\ ~DateLess(events[e].finish_date, now)})

\* EventIndex.get_context_data: filter(finish_date__gte=datetime.now())
\* .annotate(n_workshops=Count('workshop')).order_by('start_date')
EventIndex_get_context_data(now) ==
    order_by_start_date({e \in DOMAIN events :
                            ~DateLess(events[e].finish_date, now)})

ListingResponse(view, user, events_list) ==
    [view |-> view, user |-> user, today |-> today, events_list |-> events_list]

\* A GET of the home page by any viewer.
IndexGet ==
    /\ \E user \in Viewers : \E events_list \in Index_get_context_data(today) :
          response' = ListingResponse("Index", user, events_list)
    /\ UNCHANGED <<events, today, instance, workshops, available, assignment,
                   pending, outbox>>

\* A GET of the events index by any viewer.
EventIndexGet ==
    /\ \E user \in Viewers :
       \E events_list \in EventIndex_get_context_data(today) :
          response' = ListingResponse("EventIndex", user, events_list)
    /\ UNCHANGED <<events, today, instance, workshops, available, assignment,
                   pending, outbox>>

\* a row of the Event table as the listings read it
ListedEvent(name, start, finish, hidden, highlighted) ==
    [name |-> name, slug |-> slugify(name), start_date |-> start,
     finish_date |-> finish, hidden_event |-> hidden, released |-> TRUE,
     highlighted_event |-> highlighted]

\* Two events: one with any dates and any setting of hidden_event and
\* highlighted_event, and a visible, highlighted one that runs to the last day.
InitListing ==
    /\ \E start \in Dates, finish \in Dates, hidden \in BOOLEAN,
          highlighted \in BOOLEAN :
          /\ ~DateLess(finish, start)
          /\ events = (1 :> ListedEvent(<<"S">>, start, finish, hidden, highlighted)
                       @@ 2 :> ListedEvent(<<"S", "S">>, [month |-> 1, day |-> MaxDay],
                                           [month |-> MaxMonth, day |-> MaxDay],
                                           FALSE, TRUE))
    /\ today = FirstDate
    /\ response = NoResponse
    /\ EmptyStore

NextListing == IndexGet \/ EventIndexGet \/ Tick

SpecListing == InitListing /\ [][NextListing]_vars

\* the listing views
Listings == {"Index", "EventIndex"}

\* the events a listing response shows
Listed(r) == {r.events_list[i] : i \in DOMAIN r.events_list}

\* C11: an event with hidden_event = true never appears in the list of the
\* home page or of the events index shown to a viewer who lacks
\* view_hidden_event, whatever its dates and other flags.
C11_HiddenNeverListed ==
    (response.view \in Listings /\ ~has_perm(response.user, view_hidden_event))
        => \A e \in Listed(response) : ~events[e].hidden_event

(***************************************************************************)
(* The slug redirect of EventPage.                                         *)
(***************************************************************************)
\* an answered request whose URL slug is not the event's canonical slug
NonCanonical ==
    /\ EventPageAnswered
    /\ response.slug # events[response.event_id].slug

\* the redirect to the canonical URL of the event requested
CanonicalRedirect ==
    RedirectResponse(response.event_id, events[response.event_id].slug)

\* C12 as stated: every request with a non-canonical slug is answered with a
\* redirect to the canonical slug URL, before any visibility check: for every
\* event and every viewer, a hidden event viewed without view_hidden_event
\* included.
C12_RedirectBeforeVisibility ==
    NonCanonical => response.result = CanonicalRedirect

\* C12 amended: the redirect comes after the class-level view_event check and
\* the hidden check, and before the start-date and release checks: on a
\* non-canonical slug a viewer who holds view_event is redirected to the
\* canonical slug URL of every event that is not hidden, whatever its
\* start_date and released flag, and a viewer without view_event, or without
\* view_hidden_event on a hidden event, gets the not-found style denial.
C12_RedirectAfterGate ==
    NonCanonical =>
        LET event == events[response.event_id]
            user == response.user
        IN  /\ (has_perm(user, view_event) /\ ~event.hidden_event)
                  => response.result = CanonicalRedirect
            /\ (~has_perm(user, view_event)
                  \/ (event.hidden_event /\ ~has_perm(user, view_hidden_event)))
                  => NotFoundStyle(response.result)

\* a redirect given for an unreleased event before its start date to a viewer
\* who holds view_event only
C12_Witness ==
    /\ NonCanonical
    /\ response.user = [perms |-> {view_event}, is_superuser |-> FALSE]
    /\ ~events[response.event_id].hidden_event
    /\ ~events[response.event_id].released
    /\ DateLess(response.today, events[response.event_id].start_date)
    /\ response.result = CanonicalRedirect
    /\ response.result.status = 302

(***************************************************************************)
(* The outcomes of an assignment submission.                               *)
(***************************************************************************)
\* a response that hands the form's validation errors back to the staff
\* member: a page rendered (or a bad-request answer) carrying the errors
ValidationErrorSignalled(result) ==
    /\ result.status \in {200, 400}
    /\ "errors" \in DOMAIN result

\* C13: every assignment submission ends in exactly one defined outcome:
\* applied in full and answered with the redirect to the assignment page,
\* NOT_FOUND when the target workshop does not exist, or a validation error
\* signalled back when the workshop id is missing or an ineligible volunteer
\* is named; the two failure outcomes write nothing.
C13_DefinedOutcome ==
    [][Answered =>
        LET w == response'.workshop_id
            entries == response'.entries
            result == response'.result
        IN  IF w = None
            THEN /\ ValidationErrorSignalled(result)
                 /\ UNCHANGED <<assignment, available, workshops>>
            ELSE IF w \notin DOMAIN workshops
            THEN /\ result = Http404NoWorkshop
                 /\ UNCHANGED <<assignment, available, workshops>>
            ELSE IF Ineligible(w, entries) # {}
            THEN /\ ValidationErrorSignalled(result)
                 /\ UNCHANGED <<assignment, available, workshops>>
            ELSE /\ result = AssignRedirect
                 /\ assignment' = save(assignment, VolunteerAssignForm(w), entries)]_vars

(***************************************************************************)
(* The outcomes of dispatching the status messages.                        *)
(***************************************************************************)
\* a failure answered by the view itself: a page telling the user that the
\* dispatch failed, as opposed to an exception that left the view
GenericFailure(result) ==
    /\ result.status = 200
    /\ "text" \in DOMAIN result

\* C14: when the status messages of an event are dispatched, every failure
\* of the mail transport is caught in post(): the request ends with the
\* redirect to the events index (dispatch succeeded) or with a generic
\* failure response (the transport failed), never with an unhandled error,
\* and the assignment records are unchanged either way.
C14_EveryFailureCaught ==
    [][(response'.view = "VolunteerStatusEmailPreview.post"
          /\ response'.event_id \in DOMAIN events)
        => /\ \/ response'.result = IndexRedirect
              \/ GenericFailure(response'.result)
           /\ UNCHANGED <<assignment, available, workshops>>]_vars

====
